---- MODULE Spec2Model ----
(***************************************************************************)
(* Model of model_lightning.py: the Model_Lightning wrapper (region hooks, *)
(* the per-step loss router, the classification and similarity paths), the *)
(* Hook activation tap and the CheckpointEveryNSteps callback.             *)
(*                                                                         *)
(* Python values are records with a "type" field, so that a payload, a tag *)
(* container and a tensor can all be handed to the same method, as in the  *)
(* source.  Tensors are abstracted to identifiers; the network's output    *)
(* and each sub-module's output are distinct values determined by the      *)
(* input that produced them.                                               *)
(***************************************************************************)
EXTENDS Integers, Sequences, FiniteSets, TLC

VARIABLES
    hparams,        \* [regions, loss_weights]: the hyperparameter namespace
    netModules,     \* names of the sub-modules of model._modules['module']
    constructed,    \* TRUE iff Model_Lightning.__init__ returned
    hooks,          \* the Hook objects, in creation order
    regions,        \* self.regions: region name -> index of its Hook in hooks
    execs,          \* per sub-module, the outputs of its executions so far
    writes,         \* per Hook, the number of hook_fn invocations so far
    passes,         \* number of forward passes of the network so far
    last,           \* the last call made on the wrapper and its result
    save_step_frequency,            \* CheckpointEveryNSteps.save_step_frequency
    use_modelcheckpoint_filename,   \* CheckpointEveryNSteps flag
    global_step,    \* trainer.global_step
    invoked,        \* TRUE iff on_batch_end already ran for global_step
    checkpoints     \* the trainer.save_checkpoint calls so far

modelVars == <<hparams, netModules, constructed, hooks, regions, execs, writes, passes, last>>
ckptVars == <<save_step_frequency, use_modelcheckpoint_filename, global_step, invoked, checkpoints>>
vars == <<hparams, netModules, constructed, hooks, regions, execs, writes, passes, last,
          save_step_frequency, use_modelcheckpoint_filename, global_step, invoked, checkpoints>>

(***************************************************************************)
(* Bounds of the model.                                                    *)
(***************************************************************************)
MaxBatch == 2       \* sub-batches per batch
MaxWeights == 3     \* length of hparams.loss_weights
MaxRegions == 2     \* length of hparams.regions
MaxForwards == 2    \* forward passes of the network per behaviour
MaxInput == 2       \* distinct input tensors
MaxStep == 20       \* last global step of the scripted run
MaxFreq == 5        \* largest save_step_frequency

(***************************************************************************)
(* Python values.                                                          *)
(***************************************************************************)
None == [type |-> "None"]
Tensor(n) == [type |-> "tensor", id |-> n]
Pair(a, b) == [type |-> "pair", a |-> a, b |-> b]
Str(s) == [type |-> "str", s |-> s]
List1(s) == [type |-> "list", s |-> s]
\* the output of the whole network on input tensor x
Logits(x) == [type |-> "logits", input |-> x.id]
\* the output of sub-module mod during the forward pass of input tensor x
Activation(mod, x) == [type |-> "activation", module |-> mod, input |-> x.id]

RegionNames == {"V4", "IT"}
NetModuleSets == {{"V4", "IT"}, {"V4"}}
Inputs == {Tensor(n) : n \in 1..MaxInput}
Targets == {Tensor(2)}
Tags == {Str("ImageNet"), Str("NeuralData"), List1("NeuralData"), Str("Other")}
\* a sub-batch (tags, (X, Y)); tag is the first element of the tag container
SubBatches == [tag : Tags, X : Inputs, Y : Targets]
SeqsUpTo(S, n) == UNION {[1..k -> S] : k \in 0..n}
\* the batches of a step: any tags, the inputs taken in turn from Inputs
InputAt(i) == Tensor(((i - 1) % MaxInput) + 1)
BatchOf(ts) == [i \in 1..Len(ts) |-> [tag |-> ts[i], X |-> InputAt(i), Y |-> Tensor(2)]]
Batches == {BatchOf(ts) : ts \in SeqsUpTo(Tags, MaxBatch)}
\* the (X, Y) arguments of a direct call of a loss path
Payloads == {Pair(x, y) : x \in Inputs, y \in Targets}

\* batch_[0], batch_[1] and batch_ itself as Python values
TagsOf(sb) == [type |-> "tags", first |-> sb.tag]
Payload(sb) == Pair(sb.X, sb.Y)
Element(sb) == Pair(TagsOf(sb), Payload(sb))

\* positional weight values; the i-th configured weight
WeightAt(i) == IF i = 1 THEN 2 ELSE IF i = 2 THEN 1 ELSE i
WeightVectors == {[i \in 1..k |-> WeightAt(i)] : k \in 0..MaxWeights}

(***************************************************************************)
(* Hook                                                                    *)
(***************************************************************************)
\* Hook.__init__: registers hook_fn on the module, output = None
NewHook(mod) == [module |-> mod, output |-> None, attached |-> TRUE]

\* hook_fn that keeps the first recorded output
hook_fn_KeepFirst(h, output) == IF h.output = None THEN [h EXCEPT !.output = output] ELSE h

\* Hook.hook_fn: self.output = output
hook_fn(h, output) == [h EXCEPT !.output = output]

\* close that registers the hook again when it was already removed
close_Toggle(h) == [h EXCEPT !.attached = ~h.attached]

\* Hook.close: self.hook.remove(); the handle drops the registration if it
\* is still there
close(h) == [h EXCEPT !.attached = FALSE]

(***************************************************************************)
(* Model_Lightning.__init__ / hook_layers                                  *)
(***************************************************************************)
\* the dict comprehension raises KeyError on a region that names no sub-module
HookLayersOk(rs, mods) == \A k \in 1..Len(rs) : rs[k] \in mods

\* one Hook per element of hparams.regions, in order
HookObjects(rs) == [k \in 1..Len(rs) |-> NewHook(rs[k])]

\* a table whose every name maps to the first Hook created
hook_layers_First(rs) == [r \in {rs[k] : k \in 1..Len(rs)} |-> 1]

\* the resulting dict: a later entry for the same name replaces the earlier
LastIndex(rs, r) == CHOOSE k \in 1..Len(rs) : rs[k] = r /\ \A j \in (k+1)..Len(rs) : rs[j] # r
hook_layers(rs) == [r \in {rs[k] : k \in 1..Len(rs)} |-> LastIndex(rs, r)]

(***************************************************************************)
(* The mutable part of the wrapper threaded through a call:                *)
(* m = [hooks, execs, writes, passes].                                     *)
(***************************************************************************)
Machine == [hooks |-> hooks, execs |-> execs, writes |-> writes, passes |-> passes]

\* one execution of every sub-module on input x: each registered hook_fn
\* is invoked once with its module's output
RunModules(m, x) ==
    [hooks  |-> [k \in DOMAIN m.hooks |->
                    IF m.hooks[k].attached
                    THEN hook_fn(m.hooks[k], Activation(m.hooks[k].module, x))
                    ELSE m.hooks[k]],
     execs  |-> [mod \in DOMAIN m.execs |-> Append(m.execs[mod], Activation(mod, x))],
     writes |-> [k \in DOMAIN m.writes |->
                    IF m.hooks[k].attached THEN m.writes[k] + 1 ELSE m.writes[k]],
     passes |-> m.passes + 1]

\* Model_Lightning.forward / self.model(x): the network only accepts a tensor
forward(m, x) ==
    IF x.type # "tensor"
    THEN [m |-> m, err |-> "TypeError", out |-> None]
    ELSE [m |-> RunModules(m, x), err |-> "none", out |-> Logits(x)]

\* F.cross_entropy(Y_hat, Y), abstracted to a number determined by both
cross_entropy(Y_hat, Y) == Y_hat.input + Y.id

\* self.neural_loss(Y, Y_hat), abstracted likewise; defined on an activation
NeuralLossDefined(Y, Y_hat) == Y.type = "tensor" /\ Y_hat.type = "activation"
neural_loss(Y, Y_hat) == Y.id + Y_hat.input

neural_loss_name == "CKA"
ClassificationMetrics(mode) == <<<<mode, "loss">>, <<mode, "acc1">>, <<mode, "acc5">>>>
SimilarityMetrics(mode) == <<<<mode, neural_loss_name>>>>

\* the record kept of one execution of a loss path
PathCall(path, arg, fwd, tap, done) ==
    [path |-> path, arg |-> arg, fwd |-> fwd, tap |-> tap, done |-> done]

\* Model_Lightning.classification
classification(m, batch, mode) ==
    IF batch.type # "pair"
    THEN [m |-> m, err |-> "ValueError", value |-> 0, metrics |-> <<>>,
          call |-> PathCall("classification", batch, None, None, FALSE)]
    ELSE LET X == batch.a
             Y == batch.b
             f == forward(m, X)
         IN  IF f.err # "none"
             THEN [m |-> f.m, err |-> f.err, value |-> 0, metrics |-> <<>>,
                   call |-> PathCall("classification", batch, X, None, FALSE)]
             ELSE IF Y.type # "tensor"
             THEN [m |-> f.m, err |-> "TypeError", value |-> 0, metrics |-> <<>>,
                   call |-> PathCall("classification", batch, X, None, FALSE)]
             ELSE [m |-> f.m, err |-> "none", value |-> cross_entropy(f.out, Y),
                   metrics |-> ClassificationMetrics(mode),
                   call |-> PathCall("classification", batch, X, None, TRUE)]

\* the tap read of similarity: self.regions[region].output
TapOutput(m, region) == m.hooks[regions[region]].output

\* Model_Lightning.similarity
similarity(m, batch, region, mode) ==
    IF batch.type # "pair"
    THEN [m |-> m, err |-> "ValueError", value |-> 0, metrics |-> <<>>,
          call |-> PathCall("similarity", batch, None, None, FALSE)]
    ELSE LET X == batch.a
             Y == batch.b
             f == forward(m, X)
         IN  IF f.err # "none"
             THEN [m |-> f.m, err |-> f.err, value |-> 0, metrics |-> <<>>,
                   call |-> PathCall("similarity", batch, X, None, FALSE)]
             ELSE IF region \notin DOMAIN regions
             THEN [m |-> f.m, err |-> "KeyError", value |-> 0, metrics |-> <<>>,
                   call |-> PathCall("similarity", batch, X, None, FALSE)]
             ELSE LET Y_hat == TapOutput(f.m, region)
                  IN  IF ~NeuralLossDefined(Y, Y_hat)
                      THEN [m |-> f.m, err |-> "TypeError", value |-> 0, metrics |-> <<>>,
                            call |-> PathCall("similarity", batch, X, Y_hat, FALSE)]
                      ELSE [m |-> f.m, err |-> "none", value |-> neural_loss(Y, Y_hat),
                            metrics |-> SimilarityMetrics(mode),
                            call |-> PathCall("similarity", batch, X, Y_hat, TRUE)]

(***************************************************************************)
(* The loss router.  A step result is                                      *)
(* [m, err, losses, metrics, trace]; trace lists the loss paths entered,   *)
(* each with the position idx of the sub-batch being routed.               *)
(***************************************************************************)
StepStart(m) == [m |-> m, err |-> "none", losses |-> <<>>, metrics |-> <<>>, trace |-> <<>>]
Raise(acc, e) == [acc EXCEPT !.err = e]
Routed(acc, i, w, r) ==
    [m |-> r.m, err |-> r.err,
     losses |-> IF r.err = "none" THEN Append(acc.losses, w * r.value) ELSE acc.losses,
     metrics |-> acc.metrics \o r.metrics,
     trace |-> Append(acc.trace, [idx |-> i, call |-> r.call])]

\* the tests of the if / elif on batch_[0][0]
IsImageNetTag(t) == t = Str("ImageNet")
IsNeuralDataTag(t) == t = List1("NeuralData")

\* an iteration that pads a short weight vector with weight 1
training_iter_Padded(acc, batch, i) ==
    LET batch_ == batch[i]
        w == hparams.loss_weights
        wi == IF i > Len(w) THEN 1 ELSE w[i]
    IN  IF IsImageNetTag(batch_.tag)
        THEN Routed(acc, i, wi, classification(acc.m, Payload(batch_), "train"))
        ELSE IF IsNeuralDataTag(batch_.tag)
        THEN IF Len(batch) < 2 THEN Raise(acc, "IndexError")
             ELSE Routed(acc, i, wi, similarity(acc.m, Element(batch[2]), "IT", "train"))
        ELSE acc

\* an iteration that takes the weight at the number of losses so far
\* instead of at the sub-batch's position
training_iter_Compact(acc, batch, i) ==
    LET batch_ == batch[i]
        w == hparams.loss_weights
        j == Len(acc.losses) + 1
    IN  IF IsImageNetTag(batch_.tag)
        THEN IF j > Len(w) THEN Raise(acc, "IndexError")
             ELSE Routed(acc, i, w[j], classification(acc.m, Payload(batch_), "train"))
        ELSE IF IsNeuralDataTag(batch_.tag)
        THEN IF j > Len(w) THEN Raise(acc, "IndexError")
             ELSE IF Len(batch) < 2 THEN Raise(acc, "IndexError")
             ELSE Routed(acc, i, w[j], similarity(acc.m, Element(batch[2]), "IT", "train"))
        ELSE acc

\* one iteration of the loop of training_step, on the i-th sub-batch
\* (Python index i-1)
training_iter(acc, batch, i) ==
    LET batch_ == batch[i]
        w == hparams.loss_weights
    IN  IF IsImageNetTag(batch_.tag)
        THEN IF i > Len(w) THEN Raise(acc, "IndexError")
             ELSE Routed(acc, i, w[i], classification(acc.m, Payload(batch_), "train"))
        ELSE IF IsNeuralDataTag(batch_.tag)
        THEN IF i > Len(w) THEN Raise(acc, "IndexError")
             ELSE IF Len(batch) < 2 THEN Raise(acc, "IndexError")
             ELSE Routed(acc, i, w[i], similarity(acc.m, Element(batch[2]), "IT", "train"))
        ELSE acc

RECURSIVE training_loop(_, _, _)
training_loop(acc, batch, i) ==
    IF i > Len(batch) \/ acc.err # "none" THEN acc
    ELSE training_loop(training_iter(acc, batch, i), batch, i + 1)

RECURSIVE SumSeq(_)
SumSeq(s) == IF s = <<>> THEN 0 ELSE Head(s) + SumSeq(Tail(s))

\* Model_Lightning.training_step
training_step(m, batch) == training_loop(StepStart(m), batch, 1)

\* one iteration of the loop of validation_step: batch['ImageNet'] indexes
\* the list with a string, batch[region] reads an undefined name
validation_iter(acc, batch, i, mode) ==
    LET batch_ == batch[i]
    IN  IF IsImageNetTag(batch_.tag) THEN Raise(acc, "TypeError")
        ELSE IF IsNeuralDataTag(batch_.tag) THEN Raise(acc, "NameError")
        ELSE acc

RECURSIVE validation_loop(_, _, _, _)
validation_loop(acc, batch, i, mode) ==
    IF i > Len(batch) \/ acc.err # "none" THEN acc
    ELSE validation_loop(validation_iter(acc, batch, i, mode), batch, i + 1, mode)

\* Model_Lightning.validation_step
validation_step(m, batch, mode) == validation_loop(StepStart(m), batch, 1, mode)

\* Model_Lightning.test_step
test_step(m, batch) == validation_step(m, batch, "val")

(***************************************************************************)
(* CheckpointEveryNSteps                                                   *)
(***************************************************************************)
StepsPerEpoch == 8       \* steps the orchestrator runs per epoch
\* trainer.current_epoch, as the orchestrator derives it from the step count
current_epoch(step) == step \div StepsPerEpoch

\* the file name chosen by on_batch_end
CheckpointName(epoch, step) ==
    IF use_modelcheckpoint_filename
    THEN [kind |-> "modelcheckpoint", epoch |-> 0, step |-> 0]
    ELSE [kind |-> "prefix", epoch |-> epoch, step |-> step]

\* a test that never fires at step 0
ShouldSave_SkipZero(step, freq) == step > 0 /\ step % freq = 0

\* the test of on_batch_end
ShouldSave(step, freq) == step % freq = 0

\* CheckpointEveryNSteps.on_batch_end, called once for the current step
on_batch_end ==
    /\ ~invoked
    /\ invoked' = TRUE
    /\ checkpoints' =
          IF ShouldSave(global_step, save_step_frequency)
          THEN Append(checkpoints,
                      [step |-> global_step,
                       name |-> CheckpointName(current_epoch(global_step), global_step)])
          ELSE checkpoints
    /\ UNCHANGED <<save_step_frequency, use_modelcheckpoint_filename, global_step>>
    /\ UNCHANGED modelVars

\* the orchestrator moves on to the next step
NextStep ==
    /\ invoked
    /\ global_step < MaxStep
    /\ global_step' = global_step + 1
    /\ invoked' = FALSE
    /\ UNCHANGED <<save_step_frequency, use_modelcheckpoint_filename, checkpoints>>
    /\ UNCHANGED modelVars

(***************************************************************************)
(* Construction and the calls on the wrapper                               *)
(***************************************************************************)
NoCall == [op |-> "init", batch |-> <<>>, arg |-> None, region |-> "", err |-> "none",
           value |-> 0, metrics |-> <<>>, trace |-> <<>>]

\* Model_Lightning.__init__ with the given hyperparameters and network
Construct(rs, ws, mods) ==
    /\ hparams = [regions |-> rs, loss_weights |-> ws]
    /\ netModules = mods
    /\ constructed = HookLayersOk(rs, mods)
    /\ hooks = IF HookLayersOk(rs, mods) THEN HookObjects(rs) ELSE <<>>
    /\ regions = IF HookLayersOk(rs, mods) THEN hook_layers(rs) ELSE <<>>
    /\ execs = [mod \in mods |-> <<>>]
    /\ writes = IF HookLayersOk(rs, mods) THEN [k \in 1..Len(rs) |-> 0] ELSE <<>>
    /\ passes = 0
    /\ last = NoCall

CkptIdle ==
    /\ save_step_frequency = 1
    /\ use_modelcheckpoint_filename = TRUE
    /\ global_step = 0
    /\ invoked = FALSE
    /\ checkpoints = <<>>

StoreMachine(m) ==
    /\ m.passes <= MaxForwards
    /\ hooks' = m.hooks
    /\ execs' = m.execs
    /\ writes' = m.writes
    /\ passes' = m.passes
    /\ UNCHANGED <<hparams, netModules, constructed, regions>>
    /\ UNCHANGED ckptVars

StepCall(op, batch, r) ==
    [op |-> op, batch |-> batch, arg |-> None, region |-> "", err |-> r.err,
     value |-> IF r.err = "none" THEN SumSeq(r.losses) ELSE 0,
     metrics |-> r.metrics, trace |-> r.trace]

TrainingStep ==
    /\ constructed
    /\ \E batch \in Batches :
       \E r \in {training_step(Machine, batch)} :
              /\ StoreMachine(r.m)
              /\ last' = StepCall("training_step", batch, r)

ValidationStep ==
    /\ constructed
    /\ \E batch \in Batches :
       \E r \in {validation_step(Machine, batch, "val")} :
              /\ StoreMachine(r.m)
              /\ last' = StepCall("validation_step", batch, r)

TestStep ==
    /\ constructed
    /\ \E batch \in Batches :
       \E r \in {test_step(Machine, batch)} :
              /\ StoreMachine(r.m)
              /\ last' = StepCall("test_step", batch, r)

PathResult(op, arg, region, r) ==
    [op |-> op, batch |-> <<>>, arg |-> arg, region |-> region, err |-> r.err,
     value |-> r.value, metrics |-> r.metrics,
     trace |-> <<[idx |-> 1, call |-> r.call]>>]

\* a direct call of forward(x)
Forward ==
    /\ constructed
    /\ \E x \in Inputs :
       \E f \in {forward(Machine, x)} :
              /\ StoreMachine(f.m)
              /\ last' = [NoCall EXCEPT !.op = "forward", !.arg = x, !.err = f.err]

\* a direct call of classification((X, Y), mode)
Classification ==
    /\ constructed
    /\ \E arg \in Payloads :
       \E r \in {classification(Machine, arg, "train")} :
              /\ StoreMachine(r.m)
              /\ last' = PathResult("classification", arg, "", r)

\* a direct call of similarity((X, Y), region, mode)
Similarity ==
    /\ constructed
    /\ \E arg \in Payloads, region \in RegionNames :
       \E r \in {similarity(Machine, arg, region, "train")} :
              /\ StoreMachine(r.m)
              /\ last' = PathResult("similarity", arg, region, r)

\* self.regions[region].close()
Close ==
    /\ constructed
    /\ \E region \in DOMAIN regions :
          /\ hooks' = [hooks EXCEPT ![regions[region]] = close(@)]
          /\ last' = [NoCall EXCEPT !.op = "close", !.region = region]
    /\ UNCHANGED <<hparams, netModules, constructed, regions, execs, writes, passes>>
    /\ UNCHANGED ckptVars

(***************************************************************************)
(* Specifications                                                          *)
(***************************************************************************)
DefaultRegions == <<"IT">>
DefaultWeights == [i \in 1..2 |-> WeightAt(i)]
CORnetModules == {"V4", "IT"}

\* the loss router under the default regions, any weight vector
Init ==
    /\ \E ws \in WeightVectors : Construct(DefaultRegions, ws, CORnetModules)
    /\ CkptIdle
Next == TrainingStep \/ ValidationStep \/ TestStep
Spec == Init /\ [][Next]_vars

\* the taps and the loss paths under any region list and network
InitTap ==
    /\ \E rs \in SeqsUpTo(RegionNames, MaxRegions), mods \in NetModuleSets :
          Construct(rs, DefaultWeights, mods)
    /\ CkptIdle
NextTap == Forward \/ Classification \/ Similarity \/ Close
SpecTap == InitTap /\ [][NextTap]_vars

\* the periodic checkpoint policy driven by the orchestrator's step loop
InitCkpt ==
    /\ Construct(DefaultRegions, DefaultWeights, CORnetModules)
    /\ save_step_frequency \in 1..MaxFreq
    /\ use_modelcheckpoint_filename \in BOOLEAN
    /\ global_step = 0
    /\ invoked = FALSE
    /\ checkpoints = <<>>
NextCkpt == on_batch_end \/ NextStep
SpecCkpt == InitCkpt /\ [][NextCkpt]_vars

(***************************************************************************)
(* Properties                                                              *)
(***************************************************************************)
\* on_batch_end has run for step s
Handled(s) == s < global_step \/ (s = global_step /\ invoked)
SavesAt(s) == Cardinality({k \in 1..Len(checkpoints) : checkpoints[k].step = s})
IsMultiple(s, n) == \E q \in 0..MaxStep : s = q * n
SavedSteps == [k \in 1..Len(checkpoints) |-> checkpoints[k].step]

\* C1: with frequency N >= 1, an invocation of on_batch_end persists a
\* checkpoint iff its global step is a multiple of N (0 included), exactly
\* once; with N = 5 the steps 0..20 give saves at 0, 5, 10, 15, 20 only.
C1_SaveExactlyOnMultiples ==
    /\ \A s \in 0..MaxStep :
          SavesAt(s) = IF Handled(s) /\ IsMultiple(s, save_step_frequency) THEN 1 ELSE 0
    /\ (save_step_frequency = 5 /\ global_step = 20 /\ invoked)
          => SavedSteps = <<0, 5, 10, 15, 20>>

C1_Witness ==
    /\ save_step_frequency = 5
    /\ global_step = 20
    /\ invoked
    /\ Len(checkpoints) = 5

LastOf(e) == IF e = <<>> THEN None ELSE e[Len(e)]

\* C5: while a hook is registered its output is None before the module's
\* first execution and afterwards the output of the module's latest
\* execution only; hook_fn has run once per forward pass.
C5_TapHoldsLatestOutput ==
    \A k \in DOMAIN hooks :
        hooks[k].attached =>
            /\ hooks[k].output = LastOf(execs[hooks[k].module])
            /\ writes[k] = Len(execs[hooks[k].module])
            /\ writes[k] = passes

C5_Witness ==
    \E k \in DOMAIN hooks :
        /\ hooks[k].attached
        /\ Len(execs[hooks[k].module]) = 2
        /\ execs[hooks[k].module][1] # execs[hooks[k].module][2]
        /\ hooks[k].output = execs[hooks[k].module][2]
        /\ writes[k] = 2

\* C9: once a hook is closed no step changes it any more (it keeps the
\* value recorded before close), close itself leaves every stored value
\* alone and raises nothing, and closing a closed hook changes no hook.
C9_ClosedTapFrozen ==
    [][ /\ \A k \in DOMAIN hooks : ~hooks[k].attached => hooks'[k] = hooks[k]
        /\ last'.op = "close" =>
              /\ last'.err = "none"
              /\ \A k \in DOMAIN hooks : hooks'[k].output = hooks[k].output
              /\ ~hooks[regions[last'.region]].attached => hooks' = hooks ]_vars

C9_Witness ==
    \E k \in DOMAIN hooks :
        /\ ~hooks[k].attached
        /\ hooks[k].output # None
        /\ LastOf(execs[hooks[k].module]) # hooks[k].output
        /\ last.op = "close"

ConfiguredRegions == {hparams.regions[k] : k \in 1..Len(hparams.regions)}

\* C8: construction succeeds only if every configured region names a
\* sub-module, and then the table has exactly one tap per configured name,
\* attached to the sub-module of that name; a similarity call for a region
\* without an entry ends in an error, and a similarity call that returns a
\* loss computed it from the tap of the region it asked for.
C8_TapTableComplete ==
    /\ constructed <=> ConfiguredRegions \subseteq netModules
    /\ constructed =>
          /\ DOMAIN regions = ConfiguredRegions
          /\ \A r \in DOMAIN regions :
                regions[r] \in DOMAIN hooks /\ hooks[regions[r]].module = r
    /\ last.op = "similarity" =>
          /\ last.region \notin ConfiguredRegions => last.err = "KeyError"
          /\ last.err = "none" =>
                /\ last.region \in ConfiguredRegions
                /\ last.trace[1].call.tap.type = "activation"
                /\ last.trace[1].call.tap.module = last.region

C8_Witness ==
    /\ last.op = "similarity"
    /\ last.region = "IT"
    /\ "IT" \notin ConfiguredRegions
    /\ ConfiguredRegions # {}
    /\ last.err = "KeyError"

(***************************************************************************)
(* The router's contract, stated on the batch of the last step.            *)
(***************************************************************************)
IsStep == last.op \in {"training_step", "validation_step", "test_step"}
Positions == 1..Len(last.batch)
TaggedImageNet(i) == last.batch[i].tag = Str("ImageNet")
TaggedNeuralData(i) == last.batch[i].tag = Str("NeuralData")
\* neither 'ImageNet' nor 'NeuralData', in whatever container
TagUnknown(i) == last.batch[i].tag \notin {Str("ImageNet"), Str("NeuralData"), List1("NeuralData")}
TraceAt(i) == {k \in 1..Len(last.trace) : last.trace[k].idx = i}

\* the loss of the task of sub-batch sb, computed on its own payload
ClassificationLoss(sb) == cross_entropy(Logits(sb.X), sb.Y)
SimilarityLoss(sb) == neural_loss(sb.Y, Activation("IT", sb.X))

RECURSIVE WeightedImageNetSum(_, _, _)
WeightedImageNetSum(batch, w, i) ==
    IF i > Len(batch) THEN 0
    ELSE (IF batch[i].tag = Str("ImageNet") THEN w[i] * ClassificationLoss(batch[i]) ELSE 0)
         + WeightedImageNetSum(batch, w, i + 1)

\* C7: a sub-batch with an unknown tag runs no loss path (so no forward
\* pass, no metric, no error of its own); a batch of unknown tags only
\* gives loss 0; and next to unknown sub-batches the 'ImageNet' sub-batches
\* still contribute their loss under the weight of their own position.
C7_UnknownTagSkipped ==
    IsStep =>
        /\ \A i \in Positions : TagUnknown(i) => TraceAt(i) = {}
        /\ (\A i \in Positions : TagUnknown(i)) =>
              /\ last.err = "none"
              /\ last.value = 0
              /\ last.metrics = <<>>
        /\ ( /\ last.op = "training_step"
             /\ \A i \in Positions : TagUnknown(i) \/ TaggedImageNet(i)
             /\ \A i \in Positions : TaggedImageNet(i) => i <= Len(hparams.loss_weights) ) =>
              /\ last.err = "none"
              /\ last.value = WeightedImageNetSum(last.batch, hparams.loss_weights, 1)
              /\ Len(last.metrics) = 3 * Cardinality({i \in Positions : TaggedImageNet(i)})

C7_Witness ==
    /\ last.op = "training_step"
    /\ Len(last.batch) = 2
    /\ TagUnknown(1)
    /\ TaggedImageNet(2)
    /\ last.err = "none"
    /\ last.value = hparams.loss_weights[2] * ClassificationLoss(last.batch[2])
    /\ hparams.loss_weights[1] # hparams.loss_weights[2]
    /\ Len(last.trace) = 1

\* the sub-batches the router takes a loss branch for
TakesBranch(i) == IsImageNetTag(last.batch[i].tag) \/ IsNeuralDataTag(last.batch[i].tag)
ActiveTasks == Cardinality({i \in Positions : TaggedImageNet(i) \/ TaggedNeuralData(i)})

TaskLoss(sb) == IF sb.tag = Str("ImageNet") THEN ClassificationLoss(sb) ELSE SimilarityLoss(sb)
AllActive == \A i \in Positions : TaggedImageNet(i) \/ TaggedNeuralData(i)

RECURSIVE WeightedTaskSum(_, _, _)
WeightedTaskSum(batch, w, i) ==
    IF i > Len(batch) THEN 0
    ELSE w[i] * TaskLoss(batch[i]) + WeightedTaskSum(batch, w, i + 1)

RECURSIVE TaskSum(_, _)
TaskSum(batch, i) ==
    IF i > Len(batch) THEN 0 ELSE TaskLoss(batch[i]) + TaskSum(batch, i + 1)

\* C2: on a batch of 'ImageNet' and 'NeuralData' sub-batches, with one
\* weight per sub-batch, training_step returns the sum of
\* loss_weights[i] * task loss[i].
C2_WeightedSum ==
    (last.op = "training_step" /\ AllActive /\ Len(hparams.loss_weights) = Len(last.batch))
        => /\ last.err = "none"
           /\ last.value = WeightedTaskSum(last.batch, hparams.loss_weights, 1)

\* C3: in a training step every 'ImageNet' sub-batch is handed, with its
\* own payload, to the classification path and every 'NeuralData'
\* sub-batch, with its own payload, to the similarity path, once each.
C3_TagDeterminesPath ==
    (last.op = "training_step" /\ Len(last.batch) <= Len(hparams.loss_weights)) =>
        \A i \in Positions :
            /\ TaggedImageNet(i) =>
                  /\ Cardinality(TraceAt(i)) = 1
                  /\ \A k \in TraceAt(i) :
                        /\ last.trace[k].call.path = "classification"
                        /\ last.trace[k].call.arg = Payload(last.batch[i])
            /\ TaggedNeuralData(i) =>
                  /\ Cardinality(TraceAt(i)) = 1
                  /\ \A k \in TraceAt(i) :
                        /\ last.trace[k].call.path = "similarity"
                        /\ last.trace[k].call.arg = Payload(last.batch[i])

\* C6: validation_step completes whenever training_step does on the same
\* batch and returns the unweighted sum of the routed task losses;
\* test_step returns what validation_step returns, with the same metrics.
C6_EvaluationMatchesTraining ==
    /\ (last.op = "validation_step" /\ training_step(Machine, last.batch).err = "none") =>
          /\ last.err = "none"
          /\ AllActive => last.value = TaskSum(last.batch, 1)
    /\ last.op = "test_step" =>
          \E r \in {validation_step(Machine, last.batch, "val")} :
              /\ last.err = r.err
              /\ last.metrics = r.metrics
              /\ r.err = "none" => last.value = SumSeq(r.losses)

\* C10: every execution of the similarity path in a step forwards the
\* input of the sub-batch being routed and hands the metric the 'IT'
\* output of that forward pass.
C10_TapFromOwnForward ==
    IsStep =>
        \A k \in 1..Len(last.trace) :
            last.trace[k].call.path = "similarity" =>
                /\ last.trace[k].call.fwd = last.batch[last.trace[k].idx].X
                /\ last.trace[k].call.tap = Activation("IT", last.batch[last.trace[k].idx].X)

====
